---- MODULE Spec2Model ----
(***************************************************************************)
(* Model of the DualSense firmware updater: the report codec (hid.rs,      *)
(* protocol.rs), the four-stage update engine (update.rs) and the driver   *)
(* that runs the stages (main.rs run).  The HID device is the environment: *)
(* every send_feature_report / get_feature_report call is one step whose   *)
(* outcome (failure, or the bytes returned) is chosen nondeterministically.*)
(***************************************************************************)
EXTENDS Integers, Sequences, FiniteSets, TLC

\* ------------------------------------------------------------ constants

REPORT_ID_FIRMWARE_INFO == 32
REPORT_ID_UPDATE_COMMAND == 244
REPORT_ID_UPDATE_STATUS == 245

\* max_chunk of send_update_command and of send_write_update_image_and_wait
MAX_CHUNK == 57
\* length of the Start header
HEADER_LEN == 256
\* chunk_size of write_update_image
CHUNK_SIZE == 32768
\* length asked of get_update_status by the engine
STATUS_LEN == 4
\* length asked of get_feature_report by get_firmware_info
FW_INFO_LEN == 64
\* offset of the version field in the image
VERSION_OFFSET == 120

\* ------------------------------------------------------------ bounds

\* the device answers a poll loop with a transient status at most MaxPolls times
MaxPolls == 2

\* the longest payload handed to send_update_command on its own
MaxPayloadLen == 120

\* the images split into chunks on their own: up to MaxChunks whole chunks,
\* give or take ChunkSlack bytes
MaxChunks == 2
ChunkSlack == 3

\* the longest firmware-info report the device holds when get_firmware_info is
\* called on its own
MaxInfoLen == 66

\* the longest image firmware_version_from_image is called on on its own
MaxVersionImageLen == 130

\* the image of more than one chunk written through the transport has
\* BigTail bytes after its first 0x8000
BigTail == 58

\* lengths of the firmware images tried
ImageLens == {0, 57, 255, 256, 300}
\* seeds of the images' byte patterns
ImageSeeds == {0, 77}

Min(a, b) == IF a < b THEN a ELSE b

\* the byte at 0-based index i of the image file with the given seed
ByteAt(seed, i) == (seed + 3 * i + (i \div 64) + 5 * (i \div 16384)) % 256

\* data[from..to) with 0-based bounds, as a Rust slice
Slice(data, from, to) == SubSeq(data, from + 1, to)

RECURSIVE Concat(_)
Concat(seqs) == IF seqs = <<>> THEN <<>> ELSE Head(seqs) \o Concat(Tail(seqs))

\* ------------------------------------------------------------ protocol.rs

Stages == <<"StartUpdate", "WriteUpdateImage", "VerifyUpdateImage", "FinalizeUpdate">>
StageSet == {Stages[i] : i \in 1..4}

\* mutant: the discriminants are counted from 1
CommandByteFromOne(command) ==
    CASE command = "StartUpdate" -> 1
      [] command = "WriteUpdateImage" -> 2
      [] command = "VerifyUpdateImage" -> 3
      [] command = "FinalizeUpdate" -> 4
      [] OTHER -> 255

\* `command as u8`
CommandByte(command) ==
    CASE command = "StartUpdate" -> 0
      [] command = "WriteUpdateImage" -> 1
      [] command = "VerifyUpdateImage" -> 2
      [] command = "FinalizeUpdate" -> 3
      [] OTHER -> 255

UpdateCommand_from_int(value) ==
    CASE value = 0 -> "StartUpdate"
      [] value = 1 -> "WriteUpdateImage"
      [] value = 2 -> "VerifyUpdateImage"
      [] value = 3 -> "FinalizeUpdate"
      [] OTHER -> "Unknown"

\* mutant: 0x10 and 0x11 read as the decimal 10 and 11
StartUpdateStatusCode_from_intDecimal(value) ==
    CASE value = 0 -> "Success"
      [] value = 1 -> "HeaderCmacCheckError"
      [] value = 2 -> "HeaderVersionCheckError"
      [] value = 3 -> "HeaderCapabilityInfoError"
      [] value = 4 -> "Processing"
      [] value = 5 -> "HeaderFlashEraseError"
      [] value = 6 -> "HeaderInfoNotReceived"
      [] value = 10 -> "Retry"
      [] value = 11 -> "HeaderCommonParamError"
      [] OTHER -> "HeaderOtherError"

StartUpdateStatusCode_from_int(value) ==
    CASE value = 0 -> "Success"
      [] value = 1 -> "HeaderCmacCheckError"
      [] value = 2 -> "HeaderVersionCheckError"
      [] value = 3 -> "HeaderCapabilityInfoError"
      [] value = 4 -> "Processing"
      [] value = 5 -> "HeaderFlashEraseError"
      [] value = 6 -> "HeaderInfoNotReceived"
      [] value = 16 -> "Retry"
      [] value = 17 -> "HeaderCommonParamError"
      [] OTHER -> "HeaderOtherError"

\* `StartUpdateStatusCode::Processing as u8`
StartProcessingByte == 4

WriteUpdateStatusCode_from_int(value) ==
    CASE value = 0 -> "Success"
      [] value = 1 -> "Retry"
      [] value = 2 -> "WriteImageFlashWriteError"
      [] value = 3 -> "SendNext"
      [] value = 4 -> "WriteUpdateNotStarted"
      [] value = 16 -> "AlsoRetry"
      [] value = 17 -> "WriteImageCommonParamError"
      [] OTHER -> "WriteImageOtherError"

VerifyUpdateStatusCode_from_int(value) ==
    CASE value = 0 -> "Success"
      [] value = 16 -> "KeepPolling"
      [] value = 1 -> "VerifyHeaderCmacCheckError"
      [] value = 2 -> "VerifyHeaderVersionCheckError"
      [] value = 3 -> "VerifyCapabilityInfoError"
      [] value = 4 -> "VerifyFwBodyCmacCheckError"
      [] value = 17 -> "VerifyCommonParamError"
      [] OTHER -> "VerifyOtherError"

\* decode_ascii: the bytes before the first NUL; the lossy UTF-8 conversion
\* keeps an ASCII byte and turns a byte that cannot start a sequence into U+FFFD
RECURSIVE TakeUntilNul(_)
TakeUntilNul(data) ==
    IF data = <<>> \/ Head(data) = 0 THEN <<>>
    ELSE <<Head(data)>> \o TakeUntilNul(Tail(data))

Utf8Lossy(bytes) == [i \in 1..Len(bytes) |-> IF bytes[i] < 128 THEN bytes[i] ELSE 65533]

\* mutant: the bytes are not cut at the first NUL
decode_asciiWhole(data) == Utf8Lossy(data)

decode_ascii(data) == Utf8Lossy(TakeUntilNul(data))

\* ------------------------------------------------------------ error.rs

\* a Result<()>: tag "Ok", or the AppError variant with its fields
Ok == [tag |-> "Ok", a |-> "", b |-> "", n |-> 0]
Err(tag, a, b, n) == [tag |-> tag, a |-> a, b |-> b, n |-> n]
NotCalled == [tag |-> "NotCalled", a |-> "", b |-> "", n |-> 0]

UpdateFailed(stage, reason) == Err("UpdateFailed", stage, reason, 0)
UnexpectedUpdateStatusCommand(got, expected) ==
    Err("UnexpectedUpdateStatusCommand", got, expected, 0)
\* mutant: a transport error is dropped
HidErrorSwallowed == Ok

\* AppError::Hid, what `?` makes of a failed transport call
HidError == Err("Hid", "", "", 0)
IoError == Err("Io", "", "", 0)

\* ------------------------------------------------------------ hid.rs

\* the device side of the transport: what the device holds for a status read
StatusBytes == {0, 1, 2, 3, 4, 5, 6, 16, 17, 255}
CommandBytes == {0, 1, 2, 3, 9}
\* every command byte with the status bytes 0x00 and 0x10, and the commands that
\* are polled (Start, Write, Verify) with every status byte
DeviceStatusReports ==
    {<<REPORT_ID_UPDATE_STATUS, c, s, 0>> : c \in CommandBytes, s \in {0, 16}}
    \cup {<<REPORT_ID_UPDATE_STATUS, c, s, 0>> : c \in {0, 1, 2}, s \in StatusBytes}
    \cup { <<>>,
           <<REPORT_ID_UPDATE_STATUS, 1, 0>>,
           <<REPORT_ID_UPDATE_COMMAND, 0, 0, 0>>,
           <<REPORT_ID_UPDATE_COMMAND, 2, 0, 0>>,
           <<REPORT_ID_UPDATE_STATUS, 1, 3, 0, 9>> }

\* a transport call's outcome: it failed, or it returned these bytes
TransportFailed == [ok |-> FALSE, raw |-> <<>>]
Returned(raw) == [ok |-> TRUE, raw |-> raw]
NoRead == [ok |-> TRUE, raw |-> <<>>]

\* mutant: the whole report comes back, whatever the buffer's length
get_feature_reportWhole(report, length) == report

\* get_feature_report: a buffer of `length` bytes, truncated to the size read
get_feature_report(report, length) == SubSeq(report, 1, Min(Len(report), length))

\* mutant: no offset for an empty payload
OffsetsNoEmptyFrame(len) == {o \in 0..(len - 1) : o % MAX_CHUNK = 0}

\* the offsets of the fragments of a payload of length len
Offsets(len) ==
    IF len = 0 THEN {0} ELSE {o \in 0..(len - 1) : o % MAX_CHUNK = 0}

\* mutant: the fragment's end is one byte short
FragmentOneShort(data, o) == Slice(data, o, Min(Len(data), o + MAX_CHUNK - 1))

\* mutant: the fragment's end is one byte too far
FragmentOffByOne(data, o) == Slice(data, o, Min(Len(data), o + MAX_CHUNK + 1))

\* the fragment at offset off: payload[off..min(len, off + max_chunk)]
Fragment(data, o) == Slice(data, o, Min(Len(data), o + MAX_CHUNK))

\* the frame of one fragment: [report id, command as u8, chunk.len() as u8] ++ chunk
EncodeFrame(command, chunk) ==
    <<REPORT_ID_UPDATE_COMMAND, CommandByte(command), Len(chunk) % 256>> \o chunk

\* mutant: the length of the report is not checked
get_update_statusAnyLength(raw) ==
    IF raw = <<>> THEN [err |-> Err("UpdateStatusEmpty", "", "", 0),
                         command |-> "Unknown", status_raw |-> 0]
    ELSE IF raw[1] # REPORT_ID_UPDATE_STATUS
    THEN [err |-> Err("UpdateStatusMalformed", "", "", Len(raw)),
          command |-> "Unknown", status_raw |-> 0]
    ELSE [err |-> Ok, command |-> UpdateCommand_from_int(raw[2]), status_raw |-> raw[3]]

\* get_update_status on the bytes read: an error, or the decoded UpdateStatus
get_update_status(raw) ==
    IF raw = <<>> THEN [err |-> Err("UpdateStatusEmpty", "", "", 0),
                         command |-> "Unknown", status_raw |-> 0]
    ELSE IF raw[1] # REPORT_ID_UPDATE_STATUS \/ Len(raw) # 4
    THEN [err |-> Err("UpdateStatusMalformed", "", "", Len(raw)),
          command |-> "Unknown", status_raw |-> 0]
    ELSE [err |-> Ok, command |-> UpdateCommand_from_int(raw[2]), status_raw |-> raw[3]]

\* little-endian 16-bit value
u16_from_le_bytes(lo, hi) == lo + 256 * hi

NoInfo == [build_date |-> <<>>, build_time |-> <<>>, firmware_version |-> 0]

\* get_firmware_info on the bytes read: an error, or the decoded FirmwareInfo
FirmwareInfoPayload(raw) ==
    IF Len(raw) > 64 /\ raw[1] = REPORT_ID_FIRMWARE_INFO THEN Tail(raw) ELSE raw

get_firmware_info(raw) ==
    IF Len(raw) < 20 THEN [err |-> Err("FirmwareInfoTooShort", "", "", Len(raw)), info |-> NoInfo]
    ELSE LET payload == FirmwareInfoPayload(raw) IN
         IF Len(payload) < 47
         THEN [err |-> Err("FirmwareInfoPayloadTooShort", "", "", Len(payload)), info |-> NoInfo]
         ELSE [err |-> Ok,
               info |-> [build_date |-> decode_ascii(Slice(payload, 0, 12)),
                         build_time |-> decode_ascii(Slice(payload, 12, 20)),
                         firmware_version |-> u16_from_le_bytes(payload[45], payload[46])]]

\* what the device holds for a firmware-info read: the date "20230101", the
\* time "12:00:00" and the version bytes 0x01 0x02, cut to several lengths
FwInfoBytes ==
    <<50, 48, 50, 51, 48, 49, 48, 49, 0, 0, 0, 0>> \o <<49, 50, 58, 48, 48, 58, 48, 48>>
    \o [i \in 1..24 |-> i] \o <<1, 2>> \o [i \in 1..20 |-> 0]
DeviceFwInfoReports ==
    {SubSeq(FwInfoBytes, 1, n) : n \in {0, 19, 20, 46, 47, 64}}
    \cup {<<REPORT_ID_FIRMWARE_INFO>> \o FwInfoBytes}

\* ------------------------------------------------------------ state

VARIABLES
    args,           \* the command line: the flags and whether FW_IMAGE is given
    image,          \* the firmware image file: [exists, len, seed]
    pc,             \* where run() is: run, firmware_info, prompt, call, send, poll, exit
    stage,          \* the stage being called (pc = call) or running (send, poll)
    result,         \* what run() returned (pc = exit)
    results,        \* what each stage call returned
    sent,           \* the frames send_feature_report accepted, in order
    callBase,       \* Len(sent) when the running stage call began
    payload,        \* send_update_command's payload
    off,            \* send_update_command's current offset in payload
    chunkIdx,       \* write_update_image: index of the current 0x8000 chunk
    woff,           \* send_write_update_image_and_wait: current offset in the chunk
    polls,          \* status reads made in the current poll loop
    nreads,         \* status reads made in the running stage call
    lastRead,       \* outcome of the last get_feature_report call
    fwinfo,         \* the FirmwareInfo read before the update
    target_version  \* the version read from the image (-1: not read)

vars == <<args, image, pc, stage, result, results, sent, callBase, payload, off,
          chunkIdx, woff, polls, nreads, lastRead, fwinfo, target_version>>

FlagNames == {"print_firmware_info", "start_update", "write_update_image",
              "verify_update_image", "finalize_update"}

StageFlag(s) ==
    CASE s = "StartUpdate" -> "start_update"
      [] s = "WriteUpdateImage" -> "write_update_image"
      [] s = "VerifyUpdateImage" -> "verify_update_image"
      [] s = "FinalizeUpdate" -> "finalize_update"

\* std::fs::read of the image file
FileData == [i \in 1..image.len |-> ByteAt(image.seed, i - 1)]

Images ==
    {[exists |-> TRUE, len |-> l, seed |-> s] : l \in ImageLens, s \in ImageSeeds}
    \cup {[exists |-> FALSE, len |-> 0, seed |-> 0]}

\* the command lines tried: every set of stage flags, with and without FW_IMAGE;
\* --print-firmware-info alone and together with all the stage flags
ArgChoices ==
    {a \in [FlagNames \cup {"fw_image"} -> BOOLEAN] :
        a.print_firmware_info =>
            \/ \A f \in FlagNames : a[f]
            \/ \A f \in FlagNames \ {"print_firmware_info"} : ~a[f]}

Init ==
    /\ args \in ArgChoices
    /\ image \in Images
    /\ pc = "run"
    /\ stage = "none"
    /\ result = NotCalled
    /\ results = [s \in StageSet |-> NotCalled]
    /\ sent = <<>>
    /\ callBase = 0
    /\ payload = <<>>
    /\ off = 0
    /\ chunkIdx = 0
    /\ woff = 0
    /\ polls = 0
    /\ nreads = 0
    /\ lastRead = NoRead
    /\ fwinfo = NoInfo
    /\ target_version = -1

\* ------------------------------------------------------------ main.rs run

has_action == \E f \in FlagNames : args[f]

\* whether run() calls stage s: always on the interactive path, else by its flag
Runs(s) == ~has_action \/ args[StageFlag(s)]

\* the index of the first stage after stage i that run() calls (0: none)
NextStage(i) ==
    IF \E j \in (i + 1)..4 : Runs(Stages[j])
    THEN CHOOSE j \in (i + 1)..4 : Runs(Stages[j]) /\ \A k \in (i + 1)..(j - 1) : ~Runs(Stages[k])
    ELSE 0

StageIndex(s) == CHOOSE i \in 1..4 : Stages[i] = s

\* run() returns r
Exit(r) ==
    /\ pc' = "exit"
    /\ result' = r

\* run() goes on after stage i (0: before the first stage)
Proceed(i) ==
    LET n == NextStage(i) IN
    IF n = 0 THEN Exit(Ok) /\ stage' = stage
    ELSE pc' = "call" /\ stage' = Stages[n] /\ result' = result

\* mutant: run() goes on to the next stage whatever the stage returned
ReturnIgnoringError(r) ==
    /\ results' = [results EXCEPT ![stage] = r]
    /\ Proceed(StageIndex(stage))

\* the running stage call returns r to run(), which applies `?`
Return(r) ==
    /\ results' = [results EXCEPT ![stage] = r]
    /\ IF r.tag = "Ok" THEN Proceed(StageIndex(stage))
       ELSE Exit(r) /\ stage' = stage

\* run() up to the device being opened (lines 46-64 and 86-95)
RunBegin ==
    /\ pc = "run"
    /\ \E opened \in BOOLEAN :
        IF (args.start_update \/ args.write_update_image) /\ ~args.fw_image
        THEN Exit(Err("MissingFirmwareImageForUpdate", "", "", 0)) /\ stage' = stage
        ELSE IF ~has_action /\ ~args.fw_image
        THEN Exit(Err("MissingFirmwareImageForInteractive", "", "", 0)) /\ stage' = stage
        ELSE IF ~opened
        THEN Exit(Err("DeviceNotFound", "", "", 0)) /\ stage' = stage
        ELSE IF ~has_action \/ args.print_firmware_info
        THEN pc' = "firmware_info" /\ UNCHANGED <<result, stage>>
        ELSE Proceed(0)
    /\ UNCHANGED <<args, image, results, sent, callBase, payload, off, chunkIdx, woff,
                   polls, nreads, lastRead, fwinfo, target_version>>

\* mutant: the two bytes are read one offset too low
firmware_version_from_imageOffByOne(data) ==
    IF Len(data) < VERSION_OFFSET + 2
    THEN [err |-> Err("FirmwareImageTooSmall", "", "", 0), version |-> -1]
    ELSE [err |-> Ok,
          version |-> u16_from_le_bytes(data[VERSION_OFFSET], data[VERSION_OFFSET + 1])]

\* firmware_version_from_image on the bytes of the file
firmware_version_from_image(data) ==
    IF Len(data) < VERSION_OFFSET + 2
    THEN [err |-> Err("FirmwareImageTooSmall", "", "", 0), version |-> -1]
    ELSE [err |-> Ok,
          version |-> u16_from_le_bytes(data[VERSION_OFFSET + 1], data[VERSION_OFFSET + 2])]

\* read_firmware_info, then (interactive path) the version of the image
ReadFirmwareInfo ==
    /\ pc = "firmware_info"
    /\ \E r \in {TransportFailed} \cup {Returned(get_feature_report(d, FW_INFO_LEN)) : d \in DeviceFwInfoReports} :
        /\ lastRead' = r
        /\ IF ~r.ok THEN Exit(HidError) /\ UNCHANGED <<stage, fwinfo, target_version>>
           ELSE LET got == get_firmware_info(r.raw) IN
                IF got.err # Ok THEN Exit(got.err) /\ UNCHANGED <<stage, fwinfo, target_version>>
                ELSE /\ fwinfo' = got.info
                     /\ IF has_action THEN Proceed(0) /\ UNCHANGED target_version
                        ELSE IF ~image.exists
                        THEN Exit(IoError) /\ UNCHANGED <<stage, target_version>>
                        ELSE LET v == firmware_version_from_image(FileData) IN
                             IF v.err # Ok
                             THEN Exit(v.err) /\ UNCHANGED <<stage, target_version>>
                             ELSE /\ target_version' = v.version
                                  /\ pc' = "prompt"
                                  /\ UNCHANGED <<stage, result>>
    /\ UNCHANGED <<args, image, results, sent, callBase, payload, off, chunkIdx, woff,
                   polls, nreads>>

\* prompt_yes_no: the user's answer
Prompt ==
    /\ pc = "prompt"
    /\ \E yes \in BOOLEAN :
        IF yes THEN Proceed(0) ELSE Exit(Ok) /\ stage' = stage
    /\ UNCHANGED <<args, image, results, sent, callBase, payload, off, chunkIdx, woff,
                   polls, nreads, lastRead, fwinfo, target_version>>

\* ------------------------------------------------------------ update.rs

\* send_update_command(stage, data) begins: the first frame is sent next
BeginSend(data) ==
    /\ pc' = "send"
    /\ payload' = data
    /\ off' = 0

\* mutant: Retry has no None arm
StartFailureRetryFails(status) ==
    IF status \in {"Success", "Processing"} THEN "None" ELSE status

\* the match of start_update on the status its helper returned
StartFailure(status) ==
    IF status \in {"Success", "Processing", "Retry"} THEN "None" ELSE status

\* mutant: WriteUpdateNotStarted is matched to None
WriteFailureNotStartedIgnored(status) ==
    IF status \in {"Success", "SendNext", "Retry", "AlsoRetry", "WriteUpdateNotStarted"}
    THEN "None" ELSE status

\* the match of write_update_image
WriteFailure(status) ==
    IF status \in {"Success", "SendNext", "Retry", "AlsoRetry"} THEN "None" ELSE status

\* the match of verify_update_image
VerifyFailure(status) ==
    IF status \in {"Success", "KeepPolling"} THEN "None" ELSE status

\* a stage's result from the status its helper returned
StageResult(s, failure) ==
    IF failure = "None" THEN Ok ELSE UpdateFailed(s, failure)

\* mutant: an empty image still has one (empty) chunk
NumChunksAtLeastOne(data) ==
    IF Len(data) = 0 THEN 1 ELSE (Len(data) + CHUNK_SIZE - 1) \div CHUNK_SIZE

\* mutant: the whole image is handed over as one chunk
ChunkWholeImage(data, idx) == data

\* mutant: only the whole chunks are counted
NumChunksFloor(data) == Len(data) \div CHUNK_SIZE

\* image.chunks(chunk_size): chunk idx of the data
Chunk(data, idx) == Slice(data, idx * CHUNK_SIZE, Min(Len(data), (idx + 1) * CHUNK_SIZE))
NumChunks(data) == (Len(data) + CHUNK_SIZE - 1) \div CHUNK_SIZE

\* mutant: the whole image is handed over
StartHeaderWholeImage(data) == data

\* the header start_update hands to its helper: &data[..256]
StartHeader(data) == Slice(data, 0, HEADER_LEN)

\* mutant: the rest of the chunk is handed over as one command
WritePieceWholeChunk(chunk, o) == Slice(chunk, o, Len(chunk))

\* mutant: the offset is ignored, the chunk's first piece is handed over again
WritePieceNoOffset(chunk, o) == Slice(chunk, 0, Min(Len(chunk), MAX_CHUNK))

\* the piece of a chunk that send_write_update_image_and_wait hands to
\* send_update_command: chunk[off..min(len, off + max_chunk)]
WritePiece(chunk, o) == Slice(chunk, o, Min(Len(chunk), o + MAX_CHUNK))

\* mutant: finalize polls like the other stages
PollsAlways(s) == TRUE

\* whether the helper of stage s polls the status after its command was sent
\* (send_finalize_update returns after the send)
Polls(s) == s # "FinalizeUpdate"

\* mutant: 0x10 (AlsoRetry) is not polled through
WriteRetriesOnlyRetry(status_code) == status_code = "Retry"

\* mutant: verify also polls through 0x04
VerifyKeepsPollingOnBodyCheck(status_code) ==
    status_code \in {"KeepPolling", "VerifyFwBodyCmacCheckError"}

\* mutant: the start loop goes on unless an error status is read
StartStaysInLoopOnSuccess(status_raw) == status_raw \in {0, StartProcessingByte}

\* mutant: the start loop is left on no status
StartStaysInLoopAnyStatus(status_raw) == TRUE

\* the loop conditions of the three poll loops
StartStaysInLoop(status_raw) == status_raw = StartProcessingByte
WriteRetries(status_code) == status_code \in {"Retry", "AlsoRetry"}
WriteAdvances(status_code) == status_code \in {"SendNext", "Success"}
VerifyKeepsPolling(status_code) == status_code = "KeepPolling"

\* mutant: a command byte that decodes to Unknown is let through
CommandMismatchKnownOnly(command, expected) ==
    command # expected /\ command # "Unknown"

\* the check of the status's command against the command sent
CommandMismatch(command, expected) == command # expected

\* a stage is called: its code up to the first transport call
Call ==
    /\ pc = "call"
    /\ callBase' = Len(sent)
    /\ nreads' = 0
    /\ polls' = 0
    /\ chunkIdx' = 0
    /\ woff' = 0
    /\ CASE stage = "StartUpdate" ->
              IF ~image.exists THEN Return(IoError) /\ UNCHANGED <<payload, off>>
              ELSE IF Len(FileData) < HEADER_LEN
              THEN Return(Err("FirmwareImageTooSmallForHeader", "", "", 0))
                   /\ UNCHANGED <<payload, off>>
              ELSE LET data == StartHeader(FileData) IN
                   IF Len(data) # 256
                   THEN Return(Err("InvalidUpdateStreamLength", "", "", Len(data)))
                        /\ UNCHANGED <<payload, off>>
                   ELSE BeginSend(data) /\ UNCHANGED <<stage, result, results>>
         [] stage = "WriteUpdateImage" ->
              IF ~image.exists THEN Return(IoError) /\ UNCHANGED <<payload, off>>
              ELSE IF NumChunks(FileData) = 0 THEN Return(Ok) /\ UNCHANGED <<payload, off>>
              ELSE LET chunk == Chunk(FileData, 0) IN
                   IF Len(chunk) > 32768
                   THEN Return(Err("UpdateImageTooLarge", "", "", Len(chunk)))
                        /\ UNCHANGED <<payload, off>>
                   ELSE BeginSend(WritePiece(chunk, 0)) /\ UNCHANGED <<stage, result, results>>
         [] stage \in {"VerifyUpdateImage", "FinalizeUpdate"} ->
              BeginSend(<<>>) /\ UNCHANGED <<stage, result, results>>
    /\ UNCHANGED <<args, image, sent, lastRead, fwinfo, target_version>>

\* one iteration of send_update_command's loop: send_feature_report of a frame
SendFrame ==
    /\ pc = "send"
    /\ \E ok \in BOOLEAN :
        IF ~ok THEN Return(HidError) /\ UNCHANGED <<sent, off, polls>>
        ELSE /\ sent' = Append(sent, EncodeFrame(stage, Fragment(payload, off)))
             /\ IF off + MAX_CHUNK \in Offsets(Len(payload))
                THEN off' = off + MAX_CHUNK /\ UNCHANGED <<pc, stage, result, results, polls>>
                ELSE IF Polls(stage)
                THEN pc' = "poll" /\ polls' = 0 /\ UNCHANGED <<off, stage, result, results>>
                ELSE Return(Ok) /\ UNCHANGED <<off, polls>>
    /\ UNCHANGED <<args, image, callBase, payload, chunkIdx, woff, nreads, lastRead,
                   fwinfo, target_version>>

\* what an iteration of a stage's poll loop does with a decoded status: "again"
\* (poll again), "next" (write: break, on to the next fragment), "status" (the
\* helper returns Ok(a)) or the error the helper returns
Again == Err("again", "", "", 0)
NextFragment == Err("next", "", "", 0)
HelperOk(status_code) == Err("status", status_code, "", 0)

StartPoll(status) ==
    IF CommandMismatch(status.command, "StartUpdate")
    THEN UnexpectedUpdateStatusCommand(status.command, "StartUpdate")
    ELSE IF ~StartStaysInLoop(status.status_raw)
    THEN HelperOk(StartUpdateStatusCode_from_int(status.status_raw))
    ELSE Again

WritePoll(status) ==
    IF CommandMismatch(status.command, "WriteUpdateImage")
    THEN UnexpectedUpdateStatusCommand(status.command, "WriteUpdateImage")
    ELSE LET status_code == WriteUpdateStatusCode_from_int(status.status_raw) IN
         IF WriteRetries(status_code) THEN Again
         ELSE IF WriteAdvances(status_code) THEN NextFragment
         ELSE HelperOk(status_code)

VerifyPoll(status) ==
    IF CommandMismatch(status.command, "VerifyUpdateImage")
    THEN UnexpectedUpdateStatusCommand(status.command, "VerifyUpdateImage")
    ELSE LET status_code == VerifyUpdateStatusCode_from_int(status.status_raw) IN
         IF VerifyKeepsPolling(status_code) THEN Again
         ELSE HelperOk(status_code)

PollStep(status) ==
    CASE stage = "StartUpdate" -> StartPoll(status)
      [] stage = "WriteUpdateImage" -> WritePoll(status)
      [] stage = "VerifyUpdateImage" -> VerifyPoll(status)

\* write_update_image once send_write_update_image_and_wait returned
\* Ok(status_code) for the current chunk: fail, or the next chunk, or Ok
WriteAfterChunk(status_code) ==
    LET data == FileData IN
    IF WriteFailure(status_code) # "None"
    THEN Return(UpdateFailed("WriteUpdateImage", WriteFailure(status_code)))
         /\ UNCHANGED <<chunkIdx, woff, payload, off>>
    ELSE IF chunkIdx + 1 < NumChunks(data)
    THEN LET chunk == Chunk(data, chunkIdx + 1) IN
         IF Len(chunk) > 32768
         THEN Return(Err("UpdateImageTooLarge", "", "", Len(chunk)))
              /\ UNCHANGED <<chunkIdx, woff, payload, off>>
         ELSE /\ chunkIdx' = chunkIdx + 1
              /\ woff' = 0
              /\ BeginSend(WritePiece(chunk, 0))
              /\ UNCHANGED <<stage, result, results>>
    ELSE Return(Ok) /\ UNCHANGED <<chunkIdx, woff, payload, off>>

\* send_write_update_image_and_wait after the break of its poll loop: the next
\* fragment of the chunk, else it returns Ok(Success)
WriteNext ==
    LET chunk == Chunk(FileData, chunkIdx) IN
    IF woff + MAX_CHUNK \in Offsets(Len(chunk))
    THEN /\ woff' = woff + MAX_CHUNK
         /\ BeginSend(WritePiece(chunk, woff + MAX_CHUNK))
         /\ UNCHANGED <<chunkIdx, stage, result, results>>
    ELSE WriteAfterChunk("Success")

\* the stage function once its helper returned Ok(status_code)
AfterHelper(status_code) ==
    CASE stage = "StartUpdate" ->
              Return(StageResult("StartUpdate", StartFailure(status_code)))
              /\ UNCHANGED <<chunkIdx, woff, payload, off>>
      [] stage = "WriteUpdateImage" -> WriteAfterChunk(status_code)
      [] stage = "VerifyUpdateImage" ->
              Return(StageResult("VerifyUpdateImage", VerifyFailure(status_code)))
              /\ UNCHANGED <<chunkIdx, woff, payload, off>>

\* one iteration of a poll loop: get_update_status(4) and what follows it
Poll ==
    /\ pc = "poll"
    /\ \E r \in {TransportFailed}
                \cup {Returned(get_feature_report(d, STATUS_LEN)) : d \in DeviceStatusReports} :
        /\ lastRead' = r
        /\ nreads' = nreads + 1
        /\ polls' = polls + 1
        /\ IF ~r.ok THEN Return(HidError) /\ UNCHANGED <<chunkIdx, woff, payload, off>>
           ELSE LET status == get_update_status(r.raw) IN
                IF status.err # Ok
                THEN Return(status.err) /\ UNCHANGED <<chunkIdx, woff, payload, off>>
                ELSE LET step == PollStep(status) IN
                     CASE step.tag = "again" ->
                            /\ polls < MaxPolls
                            /\ UNCHANGED <<pc, stage, result, results, chunkIdx, woff,
                                           payload, off>>
                       [] step.tag = "next" -> WriteNext
                       [] step.tag = "status" -> AfterHelper(step.a)
                       [] OTHER -> Return(step) /\ UNCHANGED <<chunkIdx, woff, payload, off>>
    /\ UNCHANGED <<args, image, sent, callBase, fwinfo, target_version>>

Next == RunBegin \/ ReadFirmwareInfo \/ Prompt \/ Call \/ SendFrame \/ Poll

Spec == Init /\ [][Next]_vars

\* ------------------------------------------------------------ claims

\* the frames sent in the running (or last) stage call, and their payloads
CallFrames == SubSeq(sent, callBase + 1, Len(sent))
FramePayload(frame) == SubSeq(frame, 4, Len(frame))
PayloadOf(frames) == Concat([i \in 1..Len(frames) |-> FramePayload(frames[i])])

\* the image's bytes [from, to), from the file's pattern
ImageBytes(from, to) == [i \in 1..(to - from) |-> ByteAt(image.seed, from + i - 1)]

PolledStages == {"StartUpdate", "WriteUpdateImage", "VerifyUpdateImage"}
StageByte(s) ==
    CASE s = "StartUpdate" -> 0 [] s = "WriteUpdateImage" -> 1
      [] s = "VerifyUpdateImage" -> 2 [] s = "FinalizeUpdate" -> 3

\* this step is a status read made by stage s
PollRead(s) == pc = "poll" /\ stage = s /\ nreads' = nreads + 1

\* r is a well-formed status report read from the transport
WellFormed(r) == r.ok /\ Len(r.raw) = 4 /\ r.raw[1] = 245
\* r is a well-formed status report for command byte c with a status byte in bytes
IsStatus(r, c, bytes) == WellFormed(r) /\ r.raw[2] = c /\ r.raw[3] \in bytes

\* C1: in the start, write and verify stages a well-formed status whose command
\* byte is not the command sent ends the call at once with
\* UnexpectedUpdateStatusCommand: no retry, no further frame, never a success.
C1_MismatchIsFatal ==
    [][\A s \in PolledStages :
          (PollRead(s) /\ WellFormed(lastRead') /\ lastRead'.raw[2] # StageByte(s))
          => /\ pc' = "exit"
             /\ sent' = sent
             /\ results'[s].tag = "UnexpectedUpdateStatusCommand"
             /\ results'[s].b = s
             /\ results'[s].a # s
             /\ result' = results'[s]]_vars

C1_Witness ==
    /\ pc = "exit"
    /\ result.tag = "UnexpectedUpdateStatusCommand"
    /\ result.a = "Unknown"
    /\ result.b = "WriteUpdateImage"
    /\ nreads > 1
    /\ WellFormed(lastRead) /\ lastRead.raw[2] = 9 /\ lastRead.raw[3] = 0

\* C2: start_update keeps polling while the device answers StartUpdate with
\* 0x04 (processing) or 0x10 (retry): such a read never ends the call.
C2_StartPollsThroughTransient ==
    [][(PollRead("StartUpdate") /\ IsStatus(lastRead', 0, {4, 16}))
       => (pc' = "poll" /\ stage' = "StartUpdate" /\ results' = results)]_vars

\* C3 as stated: the status of a write is polled only once all the fragments of
\* the current 0x8000-byte chunk are sent.
C3_PollOncePerChunk ==
    (stage = "WriteUpdateImage" /\ pc = "poll")
    => \/ Len(PayloadOf(CallFrames)) % CHUNK_SIZE = 0
       \/ Len(PayloadOf(CallFrames)) = image.len

\* C3 amended: in write_update_image the status is polled after every fragment
\* of at most 0x39 bytes: each frame sent is followed by a poll loop of its own,
\* and every frame sent before it was followed by at least one status read.
C3_PollOncePerFragment ==
    [][(stage = "WriteUpdateImage" /\ sent' # sent)
       => /\ pc' = "poll"
          /\ polls' = 0
          /\ Len(sent') = Len(sent) + 1
          /\ Len(FramePayload(sent'[Len(sent')])) <= 57
          /\ nreads >= Len(sent) - callBase]_vars

C3_Witness ==
    /\ stage = "WriteUpdateImage"
    /\ pc = "poll"
    /\ image.len = 300
    /\ Len(CallFrames) = 3
    /\ nreads >= 2

\* the image bytes that the write stage sends after n bytes were sent: at most
\* 0x39 of them, up to the end of the 0x8000-byte chunk and of the image
NextPiece(n) ==
    ImageBytes(n, Min(Min(image.len, n + 57), ((n \div 32768) + 1) * 32768))

\* C4: while the device answers WriteUpdateImage with 0x01 or 0x10 the write
\* stage stays in its poll loop and sends nothing; a frame after the first is
\* sent only when the last status read was 0x00 or 0x03 for WriteUpdateImage;
\* and on 0x00 or 0x03 the stage goes on to the next piece of the image (or
\* returns Ok when none is left).
C4_NoAdvanceOnTransient ==
    [][/\ (PollRead("WriteUpdateImage") /\ IsStatus(lastRead', 1, {1, 16}))
          => /\ pc' = "poll" /\ stage' = stage
             /\ sent' = sent /\ results' = results
             /\ payload' = payload /\ woff' = woff /\ chunkIdx' = chunkIdx
       /\ (stage = "WriteUpdateImage" /\ sent' # sent /\ Len(sent) > callBase)
          => IsStatus(lastRead, 1, {0, 3})
       /\ (PollRead("WriteUpdateImage") /\ IsStatus(lastRead', 1, {0, 3}))
          => LET n == Len(PayloadOf(CallFrames)) IN
             IF n < image.len
             THEN /\ pc' = "send" /\ stage' = stage
                  /\ payload' = NextPiece(n) /\ off' = 0
             ELSE results'["WriteUpdateImage"] = Ok]_vars

C4_Witness ==
    /\ stage = "WriteUpdateImage"
    /\ pc = "send"
    /\ Len(CallFrames) = 1
    /\ nreads = 3
    /\ IsStatus(lastRead, 1, {3})

\* the reason the Write table names for a terminal status byte
WriteReason(b) ==
    CASE b = 2 -> "WriteImageFlashWriteError"
      [] b = 4 -> "WriteUpdateNotStarted"
      [] b = 17 -> "WriteImageCommonParamError"
      [] OTHER -> "WriteImageOtherError"

\* C5: a terminal Write status (any byte but 0x00, 0x01, 0x03, 0x10) read for
\* WriteUpdateImage ends write_update_image at once with
\* UpdateFailed(WriteUpdateImage(reason of that byte)): no frame, no read after.
C5_TerminalWriteAborts ==
    [][(PollRead("WriteUpdateImage") /\ IsStatus(lastRead', 1, (0..255) \ {0, 1, 3, 16}))
       => /\ pc' = "exit"
          /\ sent' = sent
          /\ result' = [tag |-> "UpdateFailed", a |-> "WriteUpdateImage",
                        b |-> WriteReason(lastRead'.raw[3]), n |-> 0]
          /\ results'["WriteUpdateImage"] = result']_vars

C5_Witness ==
    /\ pc = "exit"
    /\ image.len = 300
    /\ Len(CallFrames) = 2
    /\ IsStatus(lastRead, 1, {5})
    /\ result = [tag |-> "UpdateFailed", a |-> "WriteUpdateImage",
                 b |-> "WriteImageOtherError", n |-> 0]

\* the reason the Verify table names for a terminal status byte
VerifyReason(b) ==
    CASE b = 1 -> "VerifyHeaderCmacCheckError"
      [] b = 2 -> "VerifyHeaderVersionCheckError"
      [] b = 3 -> "VerifyCapabilityInfoError"
      [] b = 4 -> "VerifyFwBodyCmacCheckError"
      [] b = 17 -> "VerifyCommonParamError"
      [] OTHER -> "VerifyOtherError"

\* C6: verify_update_image has sent exactly the frame [0xF4, 0x02, 0x00] when it
\* polls; a status read sends nothing; it polls again only on 0x10, returns Ok
\* on 0x00 and UpdateFailed(VerifyUpdateImage(reason of the byte)) otherwise.
C6_VerifyOneFrameThenPoll ==
    /\ []((stage = "VerifyUpdateImage" /\ pc = "poll") => CallFrames = << <<244, 2, 0>> >>)
    /\ [][PollRead("VerifyUpdateImage")
          => /\ sent' = sent
             /\ (pc' = "poll" /\ stage' = stage) <=> IsStatus(lastRead', 2, {16})
             /\ IsStatus(lastRead', 2, {16}) => results' = results
             /\ IsStatus(lastRead', 2, {0}) => results'["VerifyUpdateImage"] = Ok
             /\ IsStatus(lastRead', 2, (0..255) \ {0, 16})
                => /\ pc' = "exit"
                   /\ results'["VerifyUpdateImage"] =
                        [tag |-> "UpdateFailed", a |-> "VerifyUpdateImage",
                         b |-> VerifyReason(lastRead'.raw[3]), n |-> 0]]_vars

C6_Witness ==
    /\ pc = "exit"
    /\ nreads = 2
    /\ CallFrames = << <<244, 2, 0>> >>
    /\ IsStatus(lastRead, 2, {4})
    /\ result.tag = "UpdateFailed" /\ result.b = "VerifyFwBodyCmacCheckError"

\* C7: finalize_update sends the one frame [0xF4, 0x03, 0x00], reads no status
\* and returns Ok as soon as the send succeeded; its only error is the
\* transport's, never UpdateFailed(FinalizeUpdate(..)).
C7_FinalizeFireAndForget ==
    /\ results["FinalizeUpdate"].tag \in {"NotCalled", "Ok", "Hid"}
    /\ stage = "FinalizeUpdate" => pc \in {"call", "send", "exit"}
    /\ (stage = "FinalizeUpdate" /\ pc # "call") => nreads = 0
    /\ (stage = "FinalizeUpdate" /\ pc # "call" /\ Len(sent) > callBase)
       => /\ CallFrames = << <<244, 3, 0>> >>
          /\ results["FinalizeUpdate"] = Ok
          /\ pc = "exit" /\ result = Ok
    /\ results["FinalizeUpdate"] = Ok
       => (stage = "FinalizeUpdate" /\ CallFrames = << <<244, 3, 0>> >>)
    /\ results["FinalizeUpdate"].tag = "Hid" => CallFrames = <<>>

C7_Witness ==
    /\ pc = "exit"
    /\ results["FinalizeUpdate"] = Ok
    /\ results["VerifyUpdateImage"] = Ok
    /\ IsStatus(lastRead, 2, {0})
    /\ sent[Len(sent)] = <<244, 3, 0>>

\* the StartUpdate frames among all the frames sent
StartFrames == SelectSeq(sent, LAMBDA f : f[2] = 0)

\* C8: start_update on an image shorter than 256 bytes fails with
\* FirmwareImageTooSmallForHeader with no frame sent and no status read; on a
\* longer image it reaches the transport, what it sends is always a prefix of
\* the image's first 256 bytes, and once it polls exactly those 256 bytes.
C8_StartSendsHeader ==
    /\ (results["StartUpdate"] # NotCalled /\ image.exists /\ image.len < 256)
       => /\ results["StartUpdate"].tag = "FirmwareImageTooSmallForHeader"
          /\ result = results["StartUpdate"]
          /\ pc = "exit" /\ stage = "StartUpdate"
          /\ sent = <<>> /\ nreads = 0
    /\ (image.exists /\ image.len >= 256)
       => results["StartUpdate"].tag
            \notin {"FirmwareImageTooSmallForHeader", "InvalidUpdateStreamLength"}
    /\ (stage = "StartUpdate" /\ pc \in {"send", "poll"})
       => /\ image.len >= 256
          /\ Len(PayloadOf(CallFrames)) <= 256
          /\ PayloadOf(CallFrames) = ImageBytes(0, Len(PayloadOf(CallFrames)))
    /\ (\/ stage = "StartUpdate" /\ pc = "poll"
        \/ results["StartUpdate"].tag \in
             {"Ok", "UpdateFailed", "UnexpectedUpdateStatusCommand",
              "UpdateStatusEmpty", "UpdateStatusMalformed"})
       => PayloadOf(StartFrames) = ImageBytes(0, 256)

C8_Witness ==
    /\ image.len = 300
    /\ results["StartUpdate"] = Ok
    /\ Len(StartFrames) = 5
    /\ PayloadOf(StartFrames) = ImageBytes(0, 256)

\* the update is driven end-to-end: no flag (interactive), or all four stage flags
EndToEnd ==
    \/ \A f \in FlagNames : ~args[f]
    \/ \A f \in FlagNames \ {"print_firmware_info"} : args[f]

\* stage s has been invoked (or is being invoked)
Invoked(s) == results[s] # NotCalled \/ (stage = s /\ pc \in {"call", "send", "poll"})

\* C9: end-to-end, a stage is invoked only when every earlier stage returned Ok;
\* the first error is the run's result and no later stage is invoked; the frames
\* go out in stage order; a finalize frame is sent only after start, write and
\* verify returned Ok; a run that ran a stage and returned Ok ran all four.
C9_StagesInOrder ==
    EndToEnd =>
    /\ \A i \in 1..4 : Invoked(Stages[i]) => \A j \in 1..(i - 1) : results[Stages[j]] = Ok
    /\ \A i \in 1..4 :
          results[Stages[i]].tag \notin {"NotCalled", "Ok"}
          => /\ pc = "exit" /\ result = results[Stages[i]]
             /\ \A j \in (i + 1)..4 : results[Stages[j]] = NotCalled
    /\ \A k \in 1..(Len(sent) - 1) : sent[k][2] <= sent[k + 1][2]
    /\ \A k \in 1..Len(sent) :
          sent[k][2] = 3 => \A j \in 1..3 : results[Stages[j]] = Ok
    /\ (pc = "exit" /\ result = Ok /\ Invoked("StartUpdate"))
       => \A i \in 1..4 : results[Stages[i]] = Ok

C9_Witness ==
    /\ \A f \in FlagNames : ~args[f]
    /\ pc = "exit"
    /\ result = Ok
    /\ \A i \in 1..4 : results[Stages[i]] = Ok
    /\ Len(sent) >= 12

\* C10: every frame sent is [0xF4, command byte, length byte, payload] with a
\* payload of at most 0x39 bytes and the length byte equal to its length.
C10_FrameLayout ==
    \A k \in 1..Len(sent) :
        LET f == sent[k] IN
        /\ Len(f) >= 3
        /\ f[1] = 244
        /\ f[2] \in {0, 1, 2, 3}
        /\ Len(f) - 3 <= 57
        /\ f[3] = Len(f) - 3
        /\ \A i \in 1..Len(f) : f[i] \in 0..255

C10_Witness ==
    /\ \E k \in 1..Len(sent) : sent[k][2] = 0 /\ sent[k][3] = 28 /\ Len(sent[k]) = 31
    /\ \E k \in 1..Len(sent) : sent[k][2] = 1 /\ sent[k][3] = 57 /\ Len(sent[k]) = 60
    /\ \E k \in 1..Len(sent) : sent[k][2] = 1 /\ sent[k][3] = 15 /\ Len(sent[k]) = 18
    /\ \E k \in 1..Len(sent) : sent[k] = <<244, 2, 0>>
    /\ \E k \in 1..Len(sent) : sent[k] = <<244, 3, 0>>

\* ------------------------------------------------------------ send_update_command on its own

\* the values of the variables that a call of one function on its own leaves alone
Idle ==
    /\ args = [f \in FlagNames \cup {"fw_image"} |-> FALSE]
    /\ result = NotCalled
    /\ results = [s \in StageSet |-> NotCalled]
    /\ sent = <<>>
    /\ callBase = 0
    /\ woff = 0
    /\ polls = 0
    /\ nreads = 0
    /\ fwinfo = NoInfo
    /\ target_version = -1

\* the payloads tried: every length up to MaxPayloadLen, with the images' patterns
TestPayloads ==
    {[i \in 1..n |-> ByteAt(s, i - 1)] : n \in 0..MaxPayloadLen, s \in ImageSeeds}

\* send_update_command(command, payload) is called: stage is the command
InitSend ==
    /\ Idle
    /\ image = [exists |-> FALSE, len |-> 0, seed |-> 0]
    /\ pc = "send_update_command"
    /\ stage \in StageSet \cup {"Unknown"}
    /\ payload \in TestPayloads
    /\ off = -1
    /\ chunkIdx = 0
    /\ lastRead = NoRead

\* one iteration of `for off in offsets` (off = -1: none taken yet), or its end
SendCommandStep ==
    /\ pc = "send_update_command"
    /\ LET rest == {o \in Offsets(Len(payload)) : o > off} IN
       IF rest = {}
       THEN pc' = "returned" /\ result' = Ok /\ UNCHANGED <<sent, off>>
       ELSE LET o == CHOOSE x \in rest : \A y \in rest : x <= y IN
            \E ok \in BOOLEAN :
                IF ok
                THEN /\ sent' = Append(sent, EncodeFrame(stage, Fragment(payload, o)))
                     /\ off' = o
                     /\ UNCHANGED <<pc, result>>
                ELSE pc' = "returned" /\ result' = HidError /\ UNCHANGED <<sent, off>>
    /\ UNCHANGED <<args, image, stage, results, callBase, payload, chunkIdx, woff,
                   polls, nreads, lastRead, fwinfo, target_version>>

SpecSend == InitSend /\ [][SendCommandStep]_vars

\* C11: send_update_command on a payload of length L that returns Ok has sent
\* ceil(L/0x39) frames when L > 0 and the one empty frame when L = 0, and the
\* frames' payloads, in order, are the payload; while it runs they are a prefix.
C11_FramesOfPayload ==
    LET L == Len(payload)
        out == PayloadOf(sent) IN
    pc \in {"send_update_command", "returned"} =>
    /\ out = SubSeq(payload, 1, Len(out))
    /\ (pc = "returned" /\ result.tag = "Ok")
       => /\ out = payload
          /\ Len(sent) = IF L = 0 THEN 1 ELSE (L + 56) \div 57
          /\ L = 0 => Len(sent[1]) = 3 /\ sent[1][3] = 0

C11_Witness ==
    /\ pc = "returned"
    /\ result.tag = "Ok"
    /\ Len(payload) = 114
    /\ Len(sent) = 2
    /\ PayloadOf(sent) = payload

\* ------------------------------------------------------------ image.chunks(chunk_size) on its own

BigImageLens ==
    {l \in {k * CHUNK_SIZE + d : k \in 0..MaxChunks, d \in (0 - ChunkSlack)..ChunkSlack} :
        l >= 0}

\* write_update_image has the image and starts `for chunk in image.chunks(chunk_size)`
InitChunks ==
    /\ Idle
    /\ image \in {[exists |-> TRUE, len |-> l, seed |-> s] :
                    l \in BigImageLens, s \in ImageSeeds}
    /\ pc = "chunks"
    /\ stage = "WriteUpdateImage"
    /\ payload = <<>>
    /\ off = 0
    /\ chunkIdx = -1
    /\ lastRead = NoRead

\* the iterator yields its next chunk (chunkIdx' is its index, payload' the chunk),
\* or ends
ChunksStep ==
    /\ pc = "chunks"
    /\ LET data == FileData IN
       IF chunkIdx + 1 < NumChunks(data)
       THEN /\ chunkIdx' = chunkIdx + 1
            /\ payload' = Chunk(data, chunkIdx + 1)
            /\ UNCHANGED pc
       ELSE /\ pc' = "chunks_done"
            /\ UNCHANGED <<chunkIdx, payload>>
    /\ UNCHANGED <<args, image, stage, result, results, sent, callBase, off, woff,
                   polls, nreads, lastRead, fwinfo, target_version>>

SpecChunks == InitChunks /\ [][ChunksStep]_vars

\* C12: image.chunks(0x8000) yields ceil(L/0x8000) chunks; chunk k is the image's
\* bytes [k*0x8000, min(L, (k+1)*0x8000)), so every chunk but the last has 0x8000
\* bytes, the last has L mod 0x8000 (0x8000 when that is 0) and the chunks in order
\* are the image.
C12_ChunksOfImage ==
    LET L == image.len
        n == (L + CHUNK_SIZE - 1) \div CHUNK_SIZE IN
    pc \in {"chunks", "chunks_done"} =>
    /\ chunkIdx < n
    /\ chunkIdx >= 0 =>
        /\ payload = ImageBytes(chunkIdx * CHUNK_SIZE, Min(L, (chunkIdx + 1) * CHUNK_SIZE))
        /\ Len(payload) = IF chunkIdx + 1 < n THEN CHUNK_SIZE
                          ELSE IF L % CHUNK_SIZE = 0 THEN CHUNK_SIZE ELSE L % CHUNK_SIZE
    /\ pc = "chunks_done" => chunkIdx + 1 = n

C12_Witness ==
    /\ pc = "chunks_done"
    /\ image.len = 2 * CHUNK_SIZE + 1
    /\ chunkIdx = 2
    /\ Len(payload) = 1

\* ------------------------------------------------------------ the status tables on their own

\* a status report for the stage's command with any status byte has been read
InitClassify ==
    /\ Idle
    /\ image = [exists |-> FALSE, len |-> 0, seed |-> 0]
    /\ pc = "classify"
    /\ stage \in PolledStages
    /\ lastRead \in {Returned(<<REPORT_ID_UPDATE_STATUS, CommandByte(stage), b, 0>>) :
                        b \in 0..255}
    /\ payload = <<>>
    /\ off = 0
    /\ chunkIdx = 0

\* the stage's from_int on the status byte, and the stage's match on the code:
\* result' holds the status code (a), the failure matched to it (b), the byte (n)
ClassifyStep ==
    /\ pc = "classify"
    /\ LET status_raw == get_update_status(lastRead.raw).status_raw
           code == CASE stage = "StartUpdate" -> StartUpdateStatusCode_from_int(status_raw)
                     [] stage = "WriteUpdateImage" -> WriteUpdateStatusCode_from_int(status_raw)
                     [] stage = "VerifyUpdateImage" -> VerifyUpdateStatusCode_from_int(status_raw)
           failure == CASE stage = "StartUpdate" -> StartFailure(code)
                        [] stage = "WriteUpdateImage" -> WriteFailure(code)
                        [] stage = "VerifyUpdateImage" -> VerifyFailure(code) IN
       result' = Err("Status", code, failure, status_raw)
    /\ pc' = "classified"
    /\ UNCHANGED <<args, image, stage, results, sent, callBase, payload, off, chunkIdx,
                   woff, polls, nreads, lastRead, fwinfo, target_version>>

SpecClassify == InitClassify /\ [][ClassifyStep]_vars

\* the Start table's terminal reasons
StartReason(b) ==
    CASE b = 1 -> "HeaderCmacCheckError"
      [] b = 2 -> "HeaderVersionCheckError"
      [] b = 3 -> "HeaderCapabilityInfoError"
      [] b = 5 -> "HeaderFlashEraseError"
      [] b = 6 -> "HeaderInfoNotReceived"
      [] b = 17 -> "HeaderCommonParamError"
      [] OTHER -> "HeaderOtherError"

\* the tables: the bytes that are a success, the transient bytes with their
\* names, and the reason of every other byte
TableSuccess(s) ==
    CASE s = "StartUpdate" -> [b \in {0} |-> "Success"]
      [] s = "WriteUpdateImage" -> (0 :> "Success" @@ 3 :> "SendNext")
      [] s = "VerifyUpdateImage" -> [b \in {0} |-> "Success"]
TableTransient(s) ==
    CASE s = "StartUpdate" -> (4 :> "Processing" @@ 16 :> "Retry")
      [] s = "WriteUpdateImage" -> (1 :> "Retry" @@ 16 :> "AlsoRetry")
      [] s = "VerifyUpdateImage" -> [b \in {16} |-> "KeepPolling"]
TableReason(s, b) ==
    CASE s = "StartUpdate" -> StartReason(b)
      [] s = "WriteUpdateImage" -> WriteReason(b)
      [] s = "VerifyUpdateImage" -> VerifyReason(b)

\* C13: for each of the Start, Write and Verify tables every one of the 256
\* status bytes is classified as the table says: a success byte or a transient
\* byte gets its code and no failure, a listed terminal byte its reason, and
\* every unlisted byte the stage's other-error.
C13_TablesTotal ==
    pc = "classified" =>
    LET b == lastRead.raw[3]
        ok == TableSuccess(stage)
        tr == TableTransient(stage) IN
    /\ result.n = b
    /\ b \in DOMAIN ok => result.a = ok[b] /\ result.b = "None"
    /\ b \in DOMAIN tr => result.a = tr[b] /\ result.b = "None"
    /\ b \notin (DOMAIN ok \cup DOMAIN tr)
       => /\ result.a = TableReason(stage, b)
          /\ result.b = TableReason(stage, b)
          /\ b \notin {1, 2, 3, 4, 5, 6, 17}
             => result.a \in {"HeaderOtherError", "WriteImageOtherError", "VerifyOtherError"}

C13_Witness ==
    /\ pc = "classified"
    /\ stage = "StartUpdate"
    /\ lastRead.raw[3] = 17
    /\ result.a = "HeaderCommonParamError"
    /\ result.b = "HeaderCommonParamError"

\* ------------------------------------------------------------ claims C14..C20

\* the command a status report's byte 1 stands for
CommandName(c) ==
    CASE c = 0 -> "StartUpdate" [] c = 1 -> "WriteUpdateImage"
      [] c = 2 -> "VerifyUpdateImage" [] c = 3 -> "FinalizeUpdate"
      [] OTHER -> "Unknown"

\* C14: a status read that returns no byte ends the call with UpdateStatusEmpty;
\* one that returns bytes but not exactly 4 starting with 0xF5 ends it with
\* UpdateStatusMalformed (carrying the length); a 4-byte report starting with
\* 0xF5 is accepted: byte 1 is decoded as the command (seen in the mismatch
\* error) and byte 2 is the status (a terminal byte gives its stage's reason;
\* [0xF5, 0x01, 0x02, 0x00] in the write stage gives WriteImageFlashWriteError).
C14_StatusAcceptance ==
    [][\A s \in PolledStages :
          (PollRead(s) /\ lastRead'.ok) =>
          LET raw == lastRead'.raw
              res == results'[s] IN
          /\ raw = <<>>
             => pc' = "exit" /\ res.tag = "UpdateStatusEmpty" /\ result' = res
          /\ (raw # <<>> /\ (raw[1] # 245 \/ Len(raw) # 4))
             => /\ pc' = "exit" /\ result' = res
                /\ res.tag = "UpdateStatusMalformed" /\ res.n = Len(raw)
          /\ (Len(raw) = 4 /\ raw[1] = 245)
             => /\ res.tag \notin {"UpdateStatusEmpty", "UpdateStatusMalformed"}
                /\ raw[2] # StageByte(s)
                   => /\ res.tag = "UnexpectedUpdateStatusCommand"
                      /\ res.a = CommandName(raw[2]) /\ res.b = s
                /\ (raw[2] = StageByte(s)
                    /\ raw[3] \notin (DOMAIN TableSuccess(s) \cup DOMAIN TableTransient(s)))
                   => /\ res.tag = "UpdateFailed"
                      /\ res.a = s /\ res.b = TableReason(s, raw[3])
                /\ (s = "WriteUpdateImage" /\ raw = <<245, 1, 2, 0>>)
                   => res.b = "WriteImageFlashWriteError"]_vars

C14_Witness ==
    /\ pc = "exit"
    /\ stage = "WriteUpdateImage"
    /\ lastRead = Returned(<<245, 1, 0>>)
    /\ result.tag = "UpdateStatusMalformed"
    /\ result.n = 3
    /\ results["WriteUpdateImage"] = result

\* C15: when a status read for StartUpdate ends start_update's poll loop, the
\* result of start_update follows from that status alone: Ok for 0x00 and for
\* 0x10 (Retry), UpdateFailed(StartUpdate(reason of the byte)) for every terminal
\* byte, which always ends the loop; Processing too is matched to no failure.
C15_StartOutcome ==
    /\ StartFailure("Processing") = "None"
    /\ [][(PollRead("StartUpdate") /\ IsStatus(lastRead', 0, 0..255)) =>
          LET b == lastRead'.raw[3]
              res == results'["StartUpdate"] IN
          /\ b \notin {0, 4, 16}
             => /\ res = [tag |-> "UpdateFailed", a |-> "StartUpdate",
                          b |-> StartReason(b), n |-> 0]
                /\ pc' = "exit" /\ result' = res
          /\ (b \in {0, 4, 16} /\ res # results["StartUpdate"])
             => res.tag = "Ok"]_vars

C15_Witness ==
    /\ pc = "exit"
    /\ stage = "StartUpdate"
    /\ nreads = 2
    /\ lastRead = Returned(<<245, 0, 5, 0>>)
    /\ result = [tag |-> "UpdateFailed", a |-> "StartUpdate",
                 b |-> "HeaderFlashEraseError", n |-> 0]

\* C16: a status read that fails in the transport ends the stage call and the
\* run with that transport error, with nothing sent; a send either delivers its
\* frame or ends the stage call and the run with the transport error; and once
\* the run has ended nothing is sent or read any more.
C16_TransportFailureFatal ==
    [][/\ (pc = "poll" /\ nreads' = nreads + 1 /\ ~lastRead'.ok)
          => /\ pc' = "exit" /\ stage' = stage
             /\ result'.tag = "Hid" /\ results'[stage] = result'
             /\ sent' = sent
       /\ pc = "send"
          => \/ Len(sent') = Len(sent) + 1 /\ nreads' = nreads
             \/ /\ sent' = sent /\ nreads' = nreads
                /\ pc' = "exit" /\ stage' = stage
                /\ result'.tag = "Hid" /\ results'[stage] = result'
       /\ pc = "exit" => sent' = sent /\ nreads' = nreads /\ pc' = "exit"]_vars

C16_Witness ==
    /\ pc = "exit"
    /\ stage = "WriteUpdateImage"
    /\ result.tag = "Hid"
    /\ results["WriteUpdateImage"] = result
    /\ lastRead = Returned(<<245, 1, 3, 0>>)
    /\ Len(sent) - callBase = nreads

\* C17: in the start, write and verify stages a status read that answers the
\* stage's command with a transient status of that stage (Start 0x04, 0x10;
\* Write 0x01, 0x10; Verify 0x10) never ends the call: the stage stays in its
\* poll loop, whatever the number of polls so far, sends nothing and returns
\* nothing.
C17_TransientsOnlyRepoll ==
    [][\A s \in PolledStages :
          (PollRead(s) /\ IsStatus(lastRead', StageByte(s), DOMAIN TableTransient(s)))
          => /\ pc' = "poll" /\ stage' = s
             /\ results' = results
             /\ sent' = sent]_vars

\* C18: start_update is called on an image of at least 256 bytes and its first
\* status read answers StartUpdate with 0x00: that read ends the call, which
\* returns Ok with exactly one status read made and the header's frames sent.
C18_StartSuccessOneRead ==
    [][(PollRead("StartUpdate") /\ nreads = 0 /\ IsStatus(lastRead', 0, {0}))
       => /\ image.len >= 256
          /\ results["StartUpdate"].tag = "NotCalled"
          /\ results'["StartUpdate"].tag = "Ok"
          /\ ~(pc' = "poll" /\ stage' = "StartUpdate")
          /\ nreads' = 1
          /\ sent' = sent]_vars

C18_Witness ==
    /\ pc = "exit"
    /\ stage = "StartUpdate"
    /\ image.len = 256
    /\ result.tag = "Ok"
    /\ results["StartUpdate"].tag = "Ok"
    /\ nreads = 1
    /\ lastRead = Returned(<<245, 0, 0, 0>>)

\* ------------------------------------------------------------ get_firmware_info on its own

\* what the device may hold: the report of FwInfoBytes, with and without a
\* leading report id; a date of 12 bytes without NUL, a time that starts with
\* NUL, version bytes 0xFF 0x00; a date that starts with NUL, a time with a NUL
\* in the middle, version bytes 0x00 0x80
FwInfoSamples ==
    { FwInfoBytes,
      <<REPORT_ID_FIRMWARE_INFO>> \o FwInfoBytes,
      <<50, 48, 50, 51, 48, 49, 48, 49, 49, 50, 51, 52>> \o <<0, 57, 57, 57, 57, 57, 57, 57>>
        \o [i \in 1..24 |-> 100 + i] \o <<255, 0>> \o [i \in 1..20 |-> 9],
      <<0, 65, 66, 67, 0, 68, 69, 70, 71, 72, 73, 74>> \o <<49, 50, 0, 51, 52, 0, 53, 54>>
        \o [i \in 1..24 |-> 200 + i] \o <<0, 128>> \o [i \in 1..20 |-> 3] }
FwInfoReports ==
    {SubSeq(d, 1, Min(n, Len(d))) : d \in FwInfoSamples, n \in 0..MaxInfoLen}

InitFwInfo ==
    /\ Idle
    /\ image = [exists |-> FALSE, len |-> 0, seed |-> 0]
    /\ pc = "get_firmware_info"
    /\ stage = "none"
    /\ payload = <<>>
    /\ off = 0
    /\ chunkIdx = 0
    /\ lastRead = NoRead

\* get_firmware_info: the read of 64 bytes and the parse of what was read
GetFirmwareInfoStep ==
    /\ pc = "get_firmware_info"
    /\ \E r \in {TransportFailed}
                \cup {Returned(get_feature_report(d, FW_INFO_LEN)) : d \in FwInfoReports} :
        /\ lastRead' = r
        /\ IF ~r.ok THEN result' = HidError /\ UNCHANGED fwinfo
           ELSE LET got == get_firmware_info(r.raw) IN
                result' = got.err /\ fwinfo' = got.info
    /\ pc' = "got_firmware_info"
    /\ UNCHANGED <<args, image, stage, results, sent, callBase, payload, off, chunkIdx,
                   woff, polls, nreads, target_version>>

SpecFwInfo == InitFwInfo /\ [][GetFirmwareInfoStep]_vars

\* the usable payload of a firmware-info report: without its first byte when the
\* report has more than 64 bytes and starts with the report id
UsablePayload(raw) == IF Len(raw) > 64 /\ raw[1] = 32 THEN SubSeq(raw, 2, Len(raw)) ELSE raw

\* the bytes of field before its first NUL
CutAtNul(field) ==
    LET nuls == {i \in 1..Len(field) : field[i] = 0}
        end == IF nuls = {} THEN Len(field)
               ELSE (CHOOSE i \in nuls : \A j \in nuls : i <= j) - 1 IN
    SubSeq(field, 1, end)

\* C19: get_firmware_info on a report of fewer than 20 bytes fails with
\* FirmwareInfoTooShort; on a usable payload of fewer than 47 bytes with
\* FirmwareInfoPayloadTooShort; otherwise it returns the build date, payload
\* bytes [0,12) up to the first NUL, the build time, bytes [12,20) up to the
\* first NUL, and the version, byte 44 + 256 * byte 45 (0x01 0x02: 0x0201).
C19_FirmwareInfoDecode ==
    (pc = "got_firmware_info" /\ lastRead.ok) =>
    LET raw == lastRead.raw
        pl == UsablePayload(raw) IN
    IF Len(raw) < 20
    THEN result.tag = "FirmwareInfoTooShort" /\ result.n = Len(raw)
    ELSE IF Len(pl) < 47
    THEN result.tag = "FirmwareInfoPayloadTooShort" /\ result.n = Len(pl)
    ELSE /\ result.tag = "Ok"
         /\ fwinfo.build_date = CutAtNul(SubSeq(pl, 1, 12))
         /\ fwinfo.build_time = CutAtNul(SubSeq(pl, 13, 20))
         /\ fwinfo.firmware_version = pl[45] + 256 * pl[46]
         /\ (pl[45] = 1 /\ pl[46] = 2) => fwinfo.firmware_version = 513

C19_Witness ==
    /\ pc = "got_firmware_info"
    /\ lastRead = Returned(SubSeq(FwInfoBytes, 1, 64))
    /\ result.tag = "Ok"
    /\ fwinfo.build_date = <<50, 48, 50, 51, 48, 49, 48, 49>>
    /\ fwinfo.build_time = <<49, 50, 58, 48, 48, 58, 48, 48>>
    /\ fwinfo.firmware_version = 513

\* ------------------------------------------------------------ firmware_version_from_image on its own

InitFwVersion ==
    /\ Idle
    /\ image \in {[exists |-> TRUE, len |-> l, seed |-> s] :
                    l \in 0..MaxVersionImageLen, s \in ImageSeeds}
                 \cup {[exists |-> FALSE, len |-> 0, seed |-> 0]}
    /\ pc = "firmware_version_from_image"
    /\ stage = "none"
    /\ payload = <<>>
    /\ off = 0
    /\ chunkIdx = 0
    /\ lastRead = NoRead

\* firmware_version_from_image: the file is read, then the version taken from it
FirmwareVersionStep ==
    /\ pc = "firmware_version_from_image"
    /\ IF ~image.exists THEN result' = IoError /\ UNCHANGED target_version
       ELSE LET v == firmware_version_from_image(FileData) IN
            result' = v.err /\ target_version' = v.version
    /\ pc' = "got_firmware_version"
    /\ UNCHANGED <<args, image, stage, results, sent, callBase, payload, off, chunkIdx,
                   woff, polls, nreads, lastRead, fwinfo>>

SpecFwVersion == InitFwVersion /\ [][FirmwareVersionStep]_vars

\* C20: firmware_version_from_image on an image of fewer than 0x7A bytes fails
\* with FirmwareImageTooSmall; on a longer one it returns the image's byte 0x78
\* + 256 * its byte 0x79, whatever the image's length and other bytes.
C20_VersionFromImage ==
    (pc = "got_firmware_version" /\ image.exists) =>
    IF image.len < 122
    THEN result.tag = "FirmwareImageTooSmall"
    ELSE /\ result.tag = "Ok"
         /\ target_version = ByteAt(image.seed, 120) + 256 * ByteAt(image.seed, 121)

C20_Witness ==
    /\ pc = "got_firmware_version"
    /\ image = [exists |-> TRUE, len |-> 122, seed |-> 77]
    /\ result.tag = "Ok"
    /\ target_version = 182 + 256 * 185

\* ------------------------------------------------------------ claims C21..C27

\* C21: in start_update no status is read while the header is being sent; when
\* the status is polled the call has sent exactly five frames, all with command
\* byte 0x00, four of 0x39 bytes then one of 28 bytes; and once a status has
\* been read the call has still sent those five frames and no other.
C21_HeaderOneCommand ==
    /\ (stage = "StartUpdate" /\ pc = "send") => nreads = 0
    /\ (stage = "StartUpdate" /\ (pc = "poll" \/ nreads >= 1))
       => /\ Len(CallFrames) = 5
          /\ \A k \in 1..5 : CallFrames[k][2] = 0
          /\ [k \in 1..5 |-> Len(FramePayload(CallFrames[k]))] = <<57, 57, 57, 57, 28>>

C21_Witness ==
    /\ stage = "StartUpdate"
    /\ pc = "exit"
    /\ nreads = 2
    /\ results["StartUpdate"] = Ok
    /\ Len(CallFrames) = 5
    /\ Len(CallFrames[5]) = 31

\* a status read that answers the running stage's command with a status that is
\* not transient for that stage
FinalAnswer ==
    /\ Poll
    /\ IsStatus(lastRead', StageByte(stage),
                (0..255) \ DOMAIN TableTransient(stage))

\* the runs followed to their end: each stage on its own flag (start on a
\* 256-byte image, write on a 100-byte image of two fragments), and the
\* interactive run, which calls the four stages, on images of 255 and 256 bytes
OnlyFlag(f) == [g \in FlagNames \cup {"fw_image"} |-> g \in {f, "fw_image"}]
LiveRuns ==
    { <<OnlyFlag("start_update"), [exists |-> TRUE, len |-> 256, seed |-> 0]>>,
      <<OnlyFlag("write_update_image"), [exists |-> TRUE, len |-> 100, seed |-> 0]>>,
      <<OnlyFlag("verify_update_image"), [exists |-> TRUE, len |-> 0, seed |-> 0]>>,
      <<OnlyFlag("finalize_update"), [exists |-> TRUE, len |-> 0, seed |-> 0]>>,
      <<OnlyFlag("fw_image"), [exists |-> TRUE, len |-> 255, seed |-> 0]>>,
      <<OnlyFlag("fw_image"), [exists |-> TRUE, len |-> 256, seed |-> 0]>> }

InitLive ==
    /\ \E r \in LiveRuns : args = r[1] /\ image = r[2]
    /\ pc = "run"
    /\ stage = "none"
    /\ result = NotCalled
    /\ results = [s \in StageSet |-> NotCalled]
    /\ sent = <<>>
    /\ callBase = 0
    /\ payload = <<>>
    /\ off = 0
    /\ chunkIdx = 0
    /\ woff = 0
    /\ polls = 0
    /\ nreads = 0
    /\ lastRead = NoRead
    /\ fwinfo = NoInfo
    /\ target_version = -1

\* the program runs on (it is one synchronous thread), and the device, however
\* often it answers with a transient status, eventually gives a final answer
FairSpec ==
    /\ InitLive /\ [][Next]_vars
    /\ WF_vars(RunBegin \/ ReadFirmwareInfo \/ Prompt \/ Call \/ SendFrame)
    /\ SF_vars(FinalAnswer)

\* C22: every call of a stage eventually returns, with Ok or with an error,
\* when the device eventually gives each poll loop a final answer; finalize
\* returns after its send.
C22_EveryCallReturns ==
    \A s \in StageSet :
        (stage = s /\ pc \in {"call", "send", "poll"}) ~> (results[s] # NotCalled)

C22_Witness ==
    /\ pc = "exit"
    /\ stage = "VerifyUpdateImage"
    /\ results["VerifyUpdateImage"] = Ok
    /\ nreads >= 3
    /\ IsStatus(lastRead, 2, {0})

\* ------------------------------------------------------------ start and write alone, also on two chunks

\* --start-update FW_IMAGE and --write-update-image FW_IMAGE, on the images of
\* Spec and on one image of 0x8000 + BigTail bytes
InitBigImage ==
    /\ args \in {OnlyFlag("start_update"), OnlyFlag("write_update_image")}
    /\ image \in Images \cup {[exists |-> TRUE, len |-> CHUNK_SIZE + BigTail, seed |-> 77]}
    /\ pc = "run"
    /\ stage = "none"
    /\ result = NotCalled
    /\ results = [s \in StageSet |-> NotCalled]
    /\ sent = <<>>
    /\ callBase = 0
    /\ payload = <<>>
    /\ off = 0
    /\ chunkIdx = 0
    /\ woff = 0
    /\ polls = 0
    /\ nreads = 0
    /\ lastRead = NoRead
    /\ fwinfo = NoInfo
    /\ target_version = -1

\* a status read; when the image of two chunks is written the device is
\* followed only through the answers that let the write go on (0x00, 0x03)
PollBigImage ==
    /\ Poll
    /\ (stage = "WriteUpdateImage" /\ image.len > CHUNK_SIZE)
       => IsStatus(lastRead', 1, {0, 3})

NextBigImage == RunBegin \/ Call \/ SendFrame \/ PollBigImage

SpecBigImage == InitBigImage /\ [][NextBigImage]_vars

\* the WriteUpdateImage frames among all the frames sent, and the number of
\* payload bytes in a sequence of frames
WriteFrames == SelectSeq(sent, LAMBDA f : f[2] = 1)
RECURSIVE BytesIn(_, _)
BytesIn(frames, k) == IF k = 0 THEN 0 ELSE (Len(frames[k]) - 3) + BytesIn(frames, k - 1)
SentBytes == BytesIn(WriteFrames, Len(WriteFrames))

\* C23: every frame the write stage sends carries the image bytes that follow
\* the bytes already sent (at most 0x39 of them, up to the end of the chunk), so
\* the payloads sent so far are always a prefix of the image and no byte is sent
\* twice, whatever statuses were polled; and when write_update_image has
\* returned Ok the bytes sent are as many as the image has: they are the image.
C23_WriteSendsImage ==
    /\ [][(stage = "WriteUpdateImage" /\ sent' # sent)
          => /\ SentBytes < image.len
             /\ sent' = Append(sent, <<244, 1, Len(NextPiece(SentBytes))>>
                                      \o NextPiece(SentBytes))]_vars
    /\ [](results["WriteUpdateImage"].tag = "Ok" => SentBytes = image.len)

C23_Witness ==
    /\ results["WriteUpdateImage"].tag = "Ok"
    /\ image.len = CHUNK_SIZE + BigTail
    /\ chunkIdx = 1
    /\ SentBytes = image.len
    /\ Len(sent[Len(sent)]) = 3 + BigTail - 57

\* C24: write_update_image on an empty image returns Ok and makes no transport
\* call: the write stage never sends or polls, no WriteUpdateImage frame is ever
\* sent (not even an empty one) and no status is read in its call.
C24_EmptyImageNoTransport ==
    (image.exists /\ image.len = 0) =>
    /\ WriteFrames = <<>>
    /\ results["WriteUpdateImage"].tag \in {"NotCalled", "Ok"}
    /\ stage = "WriteUpdateImage"
       => /\ pc \in {"call", "exit"}
          /\ nreads = 0
          /\ CallFrames = <<>>
          /\ pc = "exit" => results["WriteUpdateImage"] = Ok /\ result = Ok

C24_Witness ==
    /\ image.exists /\ image.len = 0
    /\ stage = "WriteUpdateImage"
    /\ pc = "exit"
    /\ results["WriteUpdateImage"] = Ok
    /\ sent = <<>>
    /\ nreads = 0

\* C25: every frame sent in a stage call has that stage's command byte (0x00
\* start, 0x01 write, 0x02 verify, 0x03 finalize), so a run of one stage alone
\* sends frames of that command only; no frame carries the byte 0xFF.
C25_OwnCommandOnly ==
    /\ \A k \in 1..Len(sent) : sent[k][2] # 255
    /\ (stage \in StageSet /\ pc \in {"send", "poll", "exit"})
       => \A k \in 1..Len(CallFrames) : CallFrames[k][2] = StageByte(stage)
    /\ \A s \in StageSet :
          (args[StageFlag(s)] /\ \A t \in StageSet \ {s} : ~args[StageFlag(t)])
          => \A k \in 1..Len(sent) : sent[k][2] = StageByte(s)

C25_Witness ==
    /\ args = OnlyFlag("verify_update_image")
    /\ pc = "exit"
    /\ results["VerifyUpdateImage"] = Ok
    /\ sent = << <<244, 2, 0>> >>

\* C26: what get_firmware_info reads never has more than 64 bytes, whatever the
\* device holds; so no leading byte is dropped: the lengths in its errors are
\* the length read, and the fields are decoded from the report as read, bytes
\* [0,12), [12,20) and [44,46), also when its first byte is 0x20.
C26_NoLeadingByteDrop ==
    (pc = "got_firmware_info" /\ lastRead.ok) =>
    LET raw == lastRead.raw IN
    /\ Len(raw) <= 64
    /\ result.tag \in {"FirmwareInfoTooShort", "FirmwareInfoPayloadTooShort"}
       => result.n = Len(raw)
    /\ Len(raw) >= 47
       => /\ result.tag = "Ok"
          /\ fwinfo.build_date = CutAtNul(SubSeq(raw, 1, 12))
          /\ fwinfo.build_time = CutAtNul(SubSeq(raw, 13, 20))
          /\ fwinfo.firmware_version = raw[45] + 256 * raw[46]

C26_Witness ==
    /\ pc = "got_firmware_info"
    /\ lastRead = Returned(SubSeq(<<32>> \o FwInfoBytes, 1, 64))
    /\ result.tag = "Ok"
    /\ fwinfo.build_date[1] = 32
    /\ Len(fwinfo.build_date) = 9
    /\ fwinfo.firmware_version = 24 + 256 * 1

\* C27: no stage ever returns InvalidUpdateStreamLength or UpdateImageTooLarge:
\* what start_update sends is its 256-byte header, and what write_update_image
\* sends lies within a chunk of at most 0x8000 bytes, on every image.
C27_NoPreconditionError ==
    /\ result.tag \notin {"InvalidUpdateStreamLength", "UpdateImageTooLarge"}
    /\ \A s \in StageSet :
          results[s].tag \notin {"InvalidUpdateStreamLength", "UpdateImageTooLarge"}
    /\ (stage = "StartUpdate" /\ pc \in {"send", "poll"}) => Len(payload) = 256
    /\ (stage = "WriteUpdateImage" /\ pc \in {"send", "poll"})
       => /\ woff + Len(payload) <= CHUNK_SIZE
          /\ chunkIdx * CHUNK_SIZE + woff + Len(payload) <= image.len

C27_Witness ==
    /\ image.len = CHUNK_SIZE + BigTail
    /\ stage = "WriteUpdateImage"
    /\ pc = "poll"
    /\ chunkIdx = 0
    /\ woff = 57
    /\ Len(payload) = 57
    /\ Len(sent) = 2

====
